---- MODULE Spec2Model ----
(***************************************************************************)
(* The ETH provider runtime process of src/src/eth/provider.rs: the driver *)
(* loop `provider`, the per-message dispatcher `handle_request`, and the   *)
(* relay task `handle_subscription_stream`.                                *)
(*                                                                         *)
(* Every tokio task (one dispatcher per inbound message, one relay task    *)
(* per subscription) is a process; its atomic steps are the pieces of code *)
(* between two accesses to shared state (the `connections` map, the        *)
(* `send_to_loop` channel, the remote endpoint, a task handle).            *)
(***************************************************************************)
EXTENDS Integers, Sequences, FiniteSets, TLC

\* ------------------------------------------------------------------ bounds
\* Spec: inbound messages of every shape.
\* number of inbound messages the driver loop dequeues in one run
MaxMsgs == 2
\* number of events the remote endpoint puts on the wire of one subscription
MaxEvents == 1
\* SubSpec: subscription traffic only (SubscribeLogs and UnsubscribeLogs from
\* callers that expect a response), more of it.
MaxSubMsgs == 3
MaxSubEvents == 1
\* StreamSpec: subscription traffic only, less of it, with the longest streams.
MaxStreamMsgs == 2
MaxStreamEvents == 3
\* HangSpec: well-formed operations against an endpoint that may answer a call,
\* fail it or never answer it, and sends no events.
MaxHangMsgs == 3

\* ------------------------------------------------------------- value sets
\* Option::None, for a string-valued, an Address-valued and a body-valued option
None == "None"
NoAddress == [none |-> TRUE]
NoBody == [tag |-> "None"]

\* `our`: the node identity the bridge was started with
Our == "our"

ETH_PROCESS_ID == "eth:sys:nectar"
VFS_PROCESS_ID == "vfs:sys:nectar"

Address(n, p) == [node |-> n, process |-> p]

\* the envelope's source: a caller on this node or on another one
Sources == {Address(Our, "A"), Address("far", "B")}
\* the envelope's rsvp: absent, or a third address
Rsvps == {NoAddress, Address(Our, "C")}
\* Request.expects_response: Option<u64>
Expects == {None, "Some"}

SubIds == {7}
Methods == {"eth_blockNumber", "bogus"}

\* request bodies as they arrive: the three EthAction variants, or bytes that
\* are no EthAction
Bodies ==
    [tag : {"SubscribeLogs"}, sub_id : SubIds]
      \cup [tag : {"UnsubscribeLogs"}, sub_id : SubIds]
      \cup [tag : {"Request"}, method : Methods]
      \cup {[tag |-> "garbage"]}

\* Message::Request(req) / Message::Response
Requests == [kind : {"Request"}, expects_response : Expects, body : Bodies, metadata : {None}]
Responses == {[kind |-> "Response", body |-> [tag |-> "Ok"], metadata |-> None]}

\* what the remote endpoint answers to a one-shot call
RpcValues == {"R1", "R2"}
\* events on the wire of a subscription, in the order the endpoint produces them
WireEvents == <<"E1", "E2", "E3", "E4">>
\* rand::random()
RandIds == {"rnd"}

\* ---------------------------------------------------------- pure functions
\* serde_json::from_slice::<EthAction>(&req.body): the action, or None when the
\* bytes are no EthAction
DecodeAction(body) ==
    IF body.tag \in {"SubscribeLogs", "UnsubscribeLogs", "Request"} THEN body ELSE NoBody

\* to_static_str(&method): the allow-list of remote method names
to_static_str(method) ==
    IF method \in {"eth_blockNumber"} THEN method ELSE None

\* serde_json::from_str::<SubscriptionResult>(value.get())
DecodeEvent(value) ==
    IF value = "malformed" THEN None ELSE value

\* the registry key of a SubscribeLogs / UnsubscribeLogs
SubKey(km, sub_id) == <<km.target.process, sub_id>>

\* km.rsvp.or_else(|| req.expects_response.map(|_| Address{our, km.source.process}))
ReplyTarget(our, km) ==
    IF km.rsvp # NoAddress THEN km.rsvp
    ELSE IF km.message.expects_response # None
         THEN Address(our, km.source.process)
         ELSE NoAddress

\* the KernelMessage handle_request sends back
ResponseMessage(our, km, target, return_body) ==
    [id      |-> km.id,
     source  |-> Address(our, VFS_PROCESS_ID),
     target  |-> target,
     rsvp    |-> NoAddress,
     message |-> [kind |-> "Response", body |-> return_body,
                  metadata |-> km.message.metadata]]

\* the KernelMessage handle_subscription_stream sends for one event
RelayMessage(our, id, sub_id, target, event) ==
    [id      |-> id,
     source  |-> Address(our, ETH_PROCESS_ID),
     target  |-> target,
     rsvp    |-> NoAddress,
     message |-> [kind |-> "Request", expects_response |-> None,
                  body |-> [tag |-> "Sub", id |-> sub_id, result |-> event],
                  metadata |-> None]]

\* DashMap::insert: overwrites any prior entry of the key
MapInsert(m, k, v) == [x \in DOMAIN m \cup {k} |-> IF x = k THEN v ELSE m[x]]
\* DashMap::remove
MapRemove(m, k) == [x \in DOMAIN m \ {k} |-> m[x]]

\* ------------------------------------------------------------------ state
VARIABLES
    disp,          \* one record per dequeued message: its dispatcher invocation
    connections,   \* the registry: (ProcessId, u64) -> handle of a relay task
    tasks,         \* the relay tasks spawned so far; a handle is an index
                   \* (`by`: the dispatcher that spawned the task, history)
    wire,          \* per relay task: the events the endpoint has produced
    wire_closed,   \* per relay task: the stream has signalled its end
    send_to_loop,  \* the messages the bridge has put on the bus, in order
    sent_by        \* per bus message: the task that sent it (history)

vars == <<disp, connections, tasks, wire, wire_closed, send_to_loop, sent_by>>

\* the messages the bus routes to the bridge: the target is the bridge itself
\* (the correlation id is given on receipt: ids are unique)
Inbound ==
    [source : Sources, target : {Address(Our, ETH_PROCESS_ID)},
     rsvp : Rsvps, message : Requests \cup Responses]

\* the part of it that opens and closes subscriptions and asks for a reply
SubscriptionTraffic ==
    {km \in Inbound :
        /\ km.message.kind = "Request"
        /\ km.message.body.tag \in {"SubscribeLogs", "UnsubscribeLogs"}
        /\ km.rsvp = NoAddress
        /\ km.message.expects_response # None}

\* the well-formed operations: the three of them, with an allow-listed method,
\* from a caller on this node that expects a response
OperationTraffic ==
    {km \in Inbound :
        /\ km.source.node = Our
        /\ km.message.kind = "Request"
        /\ km.message.body.tag \in {"SubscribeLogs", "UnsubscribeLogs", "Request"}
        /\ km.message.body.tag = "Request" => to_static_str(km.message.body.method) # None
        /\ km.rsvp = NoAddress
        /\ km.message.expects_response # None}

\* subscription traffic under two sub_ids
StreamSubIds == {7, 8}
StreamTraffic ==
    [source : Sources, target : {Address(Our, ETH_PROCESS_ID)}, rsvp : {NoAddress},
     message : [kind : {"Request"}, expects_response : {"Some"},
                body : [tag : {"SubscribeLogs", "UnsubscribeLogs"}, sub_id : StreamSubIds],
                metadata : {None}]]

Dispatchers == 1..Len(disp)
Tasks == 1..Len(tasks)

Init ==
    /\ disp = <<>>
    /\ connections = [k \in {} |-> 0]
    /\ tasks = <<>>
    /\ wire = <<>>
    /\ wire_closed = <<>>
    /\ send_to_loop = <<>>
    /\ sent_by = <<>>

\* a dispatcher leaves its step
Goto(d, label) == disp' = [disp EXCEPT ![d].pc = label]

Send(msg, who) ==
    /\ send_to_loop' = Append(send_to_loop, msg)
    /\ sent_by' = Append(sent_by, who)

\* ------------------------------------------------------------ driver loop
\* RecvFrom that awaits handle_request in the loop instead of spawning it: the
\* next message is dequeued when the dispatcher of the last one has ended
RecvFrom_Inline(inbound, max) ==
    /\ Len(disp) < max
    /\ \A d \in 1..Len(disp) : disp[d].pc \in {"returned_ok", "returned_err", "panicked"}
    /\ \E m \in inbound :
         LET km == [id |-> Len(disp) + 1, source |-> m.source, target |-> m.target,
                    rsvp |-> m.rsvp, message |-> m.message]
         IN  disp' = Append(disp, [km |-> km, pc |-> "start", handle |-> 0,
                                   response |-> None, return_body |-> NoBody,
                                   err |-> None])
    /\ UNCHANGED <<connections, tasks, wire, wire_closed, send_to_loop, sent_by>>

\* while let Some(km) = recv_in_client.recv().await { tokio::spawn(handle_request) }
RecvFrom(inbound, max) ==
    /\ Len(disp) < max
    /\ \E m \in inbound :
         LET km == [id |-> Len(disp) + 1, source |-> m.source, target |-> m.target,
                    rsvp |-> m.rsvp, message |-> m.message]
         IN  disp' = Append(disp, [km |-> km, pc |-> "start", handle |-> 0,
                                   response |-> None, return_body |-> NoBody,
                                   err |-> None])
    /\ UNCHANGED <<connections, tasks, wire, wire_closed, send_to_loop, sent_by>>

\* ------------------------------------------------- handle_request, by step
Km(d) == disp[d].km
Action(d) == DecodeAction(Km(d).message.body)
At(d, label) == d \in Dispatchers /\ disp[d].pc = label
Decoded(d, tag) ==
    /\ At(d, "start")
    /\ Km(d).message.kind = "Request"
    /\ Action(d).tag = tag

\* let Message::Request(req) = &km.message else { return Err(ProviderError) }
RejectNonRequest(d) ==
    /\ At(d, "start")
    /\ Km(d).message.kind # "Request"
    /\ disp' = [disp EXCEPT ![d].pc = "returned_err", ![d].err = "ProviderError"]
    /\ UNCHANGED <<connections, tasks, wire, wire_closed, send_to_loop, sent_by>>

\* RejectUndecodable that answers the caller with the decode error
RejectUndecodable_Replies(d) ==
    /\ At(d, "start")
    /\ Km(d).message.kind = "Request"
    /\ DecodeAction(Km(d).message.body) = NoBody
    /\ disp' = [disp EXCEPT ![d].pc = "reply",
                            ![d].return_body = [tag |-> "Err", error |-> "ProviderError"]]
    /\ UNCHANGED <<connections, tasks, wire, wire_closed, send_to_loop, sent_by>>

\* serde_json::from_slice::<EthAction>(&req.body).map_err(..)?
RejectUndecodable(d) ==
    /\ At(d, "start")
    /\ Km(d).message.kind = "Request"
    /\ Action(d) = NoBody
    /\ disp' = [disp EXCEPT ![d].pc = "returned_err", ![d].err = "ProviderError"]
    /\ UNCHANGED <<connections, tasks, wire, wire_closed, send_to_loop, sent_by>>

\* SubscribeLogs: provider.inner().prepare("eth_subscribe", ..) is issued
SubscribePrepare(d) ==
    /\ Decoded(d, "SubscribeLogs")
    /\ Goto(d, "subscribe_await")
    /\ UNCHANGED <<connections, tasks, wire, wire_closed, send_to_loop, sent_by>>

\* .await.unwrap(): the remote call returns a subscription id
SubscribeOpened(d) ==
    /\ At(d, "subscribe_await")
    /\ Goto(d, "spawn")
    /\ UNCHANGED <<connections, tasks, wire, wire_closed, send_to_loop, sent_by>>

\* SubscribeOpenFailed that turns the failure into a typed error and answers it
SubscribeOpenFailed_Typed(d) ==
    /\ At(d, "subscribe_await")
    /\ disp' = [disp EXCEPT ![d].pc = "reply",
                            ![d].err = "ProviderError",
                            ![d].return_body = [tag |-> "Err", error |-> "ProviderError"]]
    /\ UNCHANGED <<connections, tasks, wire, wire_closed, send_to_loop, sent_by>>

\* .await.unwrap(): the remote call fails, the unwrap panics and the spawned
\* dispatcher ends there
SubscribeOpenFailed(d) ==
    /\ At(d, "subscribe_await")
    /\ Goto(d, "panicked")
    /\ UNCHANGED <<connections, tasks, wire, wire_closed, send_to_loop, sent_by>>

\* SubscribeSpawn that addresses the relays to the caller's process on this node
SubscribeSpawn_LocalTarget(d) ==
    /\ At(d, "spawn")
    /\ tasks' = Append(tasks, [sub_id |-> DecodeAction(Km(d).message.body).sub_id,
                               target |-> Address(Our, Km(d).source.process),
                               state |-> "recv", taken |-> 0, value |-> None,
                               cancelled |-> FALSE, result |-> None, by |-> d])
    /\ wire' = Append(wire, <<>>)
    /\ wire_closed' = Append(wire_closed, FALSE)
    /\ disp' = [disp EXCEPT ![d].pc = "insert", ![d].handle = Len(tasks) + 1]
    /\ UNCHANGED <<connections, send_to_loop, sent_by>>

\* let target = km.source.clone(); get_raw_subscription(id).await;
\* let handle = tokio::spawn(handle_subscription_stream(our, sub_id.1, rx, target, ..))
SubscribeSpawn(d) ==
    /\ At(d, "spawn")
    /\ tasks' = Append(tasks, [sub_id |-> Action(d).sub_id, target |-> Km(d).source,
                               state |-> "recv", taken |-> 0, value |-> None,
                               cancelled |-> FALSE, result |-> None, by |-> d])
    /\ wire' = Append(wire, <<>>)
    /\ wire_closed' = Append(wire_closed, FALSE)
    /\ disp' = [disp EXCEPT ![d].pc = "insert", ![d].handle = Len(tasks) + 1]
    /\ UNCHANGED <<connections, send_to_loop, sent_by>>

\* SubscribeInsert without the insert: the handle is dropped, Ok is returned
SubscribeInsert_Forgets(d) ==
    /\ At(d, "insert")
    /\ disp' = [disp EXCEPT ![d].pc = "reply", ![d].return_body = [tag |-> "Ok"]]
    /\ UNCHANGED <<connections, tasks, wire, wire_closed, send_to_loop, sent_by>>

\* SubscribeInsert that aborts the task of the entry it replaces
SubscribeInsert_AbortsOld(d) ==
    /\ At(d, "insert")
    /\ LET key == SubKey(Km(d), DecodeAction(Km(d).message.body).sub_id) IN
         /\ tasks' = IF key \in DOMAIN connections /\ tasks[connections[key]].state = "recv"
                      THEN [tasks EXCEPT ![connections[key]].state = "aborted",
                                         ![connections[key]].cancelled = TRUE]
                      ELSE IF key \in DOMAIN connections /\ tasks[connections[key]].state = "got"
                           THEN [tasks EXCEPT ![connections[key]].cancelled = TRUE]
                           ELSE tasks
         /\ connections' = MapInsert(connections, key, disp[d].handle)
    /\ disp' = [disp EXCEPT ![d].pc = "reply", ![d].return_body = [tag |-> "Ok"]]
    /\ UNCHANGED <<wire, wire_closed, send_to_loop, sent_by>>

\* connections.insert(sub_id, handle); EthResponse::Ok
SubscribeInsert(d) ==
    /\ At(d, "insert")
    /\ connections' = MapInsert(connections, SubKey(Km(d), Action(d).sub_id), disp[d].handle)
    /\ disp' = [disp EXCEPT ![d].pc = "reply", ![d].return_body = [tag |-> "Ok"]]
    /\ UNCHANGED <<tasks, wire, wire_closed, send_to_loop, sent_by>>

\* UnsubscribeRemove that takes a missing key for done and answers Ok
UnsubscribeRemove_Lenient(d) ==
    /\ At(d, "start")
    /\ Km(d).message.kind = "Request"
    /\ DecodeAction(Km(d).message.body).tag = "UnsubscribeLogs"
    /\ LET key == SubKey(Km(d), DecodeAction(Km(d).message.body).sub_id) IN
         IF key \in DOMAIN connections
         THEN /\ connections' = MapRemove(connections, key)
              /\ disp' = [disp EXCEPT ![d].pc = "abort", ![d].handle = connections[key]]
         ELSE /\ connections' = connections
              /\ disp' = [disp EXCEPT ![d].pc = "reply",
                                      ![d].return_body = [tag |-> "Ok"]]
    /\ UNCHANGED <<tasks, wire, wire_closed, send_to_loop, sent_by>>

\* UnsubscribeLogs: connections.remove(&sub_id).ok_or(SubscriptionNotFound)?
UnsubscribeRemove(d) ==
    /\ Decoded(d, "UnsubscribeLogs")
    /\ LET key == SubKey(Km(d), Action(d).sub_id) IN
         IF key \in DOMAIN connections
         THEN /\ connections' = MapRemove(connections, key)
              /\ disp' = [disp EXCEPT ![d].pc = "abort", ![d].handle = connections[key]]
         ELSE /\ connections' = connections
              /\ disp' = [disp EXCEPT ![d].pc = "returned_err",
                                      ![d].err = "SubscriptionNotFound"]
    /\ UNCHANGED <<tasks, wire, wire_closed, send_to_loop, sent_by>>

\* JoinHandle::abort() schedules the task for cancellation and returns: a task
\* suspended at an await is dropped there without running again; a task that
\* is being polled on another worker is marked and dropped only when its poll
\* next suspends; a finished task is left as it is
AbortTask(t) ==
    CASE tasks[t].state = "recv" -> [tasks EXCEPT ![t].state = "aborted", ![t].cancelled = TRUE]
      [] tasks[t].state = "got"  -> [tasks EXCEPT ![t].cancelled = TRUE]
      [] OTHER                   -> tasks

\* handle.1.abort(); EthResponse::Ok
UnsubscribeAbort(d) ==
    /\ At(d, "abort")
    /\ tasks' = AbortTask(disp[d].handle)
    /\ disp' = [disp EXCEPT ![d].pc = "reply", ![d].return_body = [tag |-> "Ok"]]
    /\ UNCHANGED <<connections, wire, wire_closed, send_to_loop, sent_by>>

\* Request: to_static_str(&method).ok_or(ProviderError)?; prepare(method, params)
RequestPrepare(d) ==
    /\ Decoded(d, "Request")
    /\ IF to_static_str(Action(d).method) = None
       THEN disp' = [disp EXCEPT ![d].pc = "returned_err", ![d].err = "ProviderError"]
       ELSE Goto(d, "request_await")
    /\ UNCHANGED <<connections, tasks, wire, wire_closed, send_to_loop, sent_by>>

\* RequestReturned that answers Ok and drops the result of the call
RequestReturned_DropsResult(d) ==
    /\ At(d, "request_await")
    /\ \E r \in RpcValues :
         disp' = [disp EXCEPT ![d].pc = "reply",
                              ![d].response = r,
                              ![d].return_body = [tag |-> "Ok"]]
    /\ UNCHANGED <<connections, tasks, wire, wire_closed, send_to_loop, sent_by>>

\* let response = ..prepare(method, params).await.unwrap();
\* EthResponse::Request(response)
RequestReturned(d) ==
    /\ At(d, "request_await")
    /\ \E r \in RpcValues :
         disp' = [disp EXCEPT ![d].pc = "reply",
                              ![d].response = r,
                              ![d].return_body = [tag |-> "Request", value |-> r]]
    /\ UNCHANGED <<connections, tasks, wire, wire_closed, send_to_loop, sent_by>>

\* .await.unwrap(): the remote call fails and the unwrap panics
RequestFailed(d) ==
    /\ At(d, "request_await")
    /\ Goto(d, "panicked")
    /\ UNCHANGED <<connections, tasks, wire, wire_closed, send_to_loop, sent_by>>

\* Reply that holds the Ok of a SubscribeLogs back unless the subscription has
\* delivered its first event
Reply_AfterFirstEvent(d) ==
    /\ At(d, "reply")
    /\ LET target == ReplyTarget(Our, Km(d)) IN
         IF /\ target # NoAddress
            /\ disp[d].handle = 0 \/ Action(d).tag # "SubscribeLogs"
                  \/ tasks[disp[d].handle].taken > 0
         THEN Send(ResponseMessage(Our, Km(d), target, disp[d].return_body), <<"dispatcher", d>>)
         ELSE UNCHANGED <<send_to_loop, sent_by>>
    /\ Goto(d, "returned_ok")
    /\ UNCHANGED <<connections, tasks, wire, wire_closed>>

\* if let Some(target) = .. { send_to_loop.send(response).await }; Ok(())
Reply(d) ==
    /\ At(d, "reply")
    /\ LET target == ReplyTarget(Our, Km(d)) IN
         IF target # NoAddress
         THEN Send(ResponseMessage(Our, Km(d), target, disp[d].return_body), <<"dispatcher", d>>)
         ELSE UNCHANGED <<send_to_loop, sent_by>>
    /\ Goto(d, "returned_ok")
    /\ UNCHANGED <<connections, tasks, wire, wire_closed>>

\* ------------------------------------------------------ the remote endpoint
\* the endpoint puts the next event of a subscription on the wire
RemoteEmit(t, max, junk) ==
    /\ t \in Tasks
    /\ tasks[t].state \in {"recv", "got"}
    /\ ~wire_closed[t]
    /\ Len(wire[t]) < max
    /\ \E e \in {WireEvents[Len(wire[t]) + 1]} \cup junk :
         wire' = [wire EXCEPT ![t] = Append(@, e)]
    /\ UNCHANGED <<disp, connections, tasks, wire_closed, send_to_loop, sent_by>>

\* the stream of a subscription ends (the socket drops, the sender is gone)
RemoteClose(t) ==
    /\ t \in Tasks
    /\ ~wire_closed[t]
    /\ tasks[t].state \in {"recv", "got"}
    /\ wire_closed' = [wire_closed EXCEPT ![t] = TRUE]
    /\ UNCHANGED <<disp, connections, tasks, wire, send_to_loop, sent_by>>

\* ------------------------------------- handle_subscription_stream, by step
\* match rx.recv().await { Ok(value) => ..
RelayRecvOk(t) ==
    /\ t \in Tasks
    /\ tasks[t].state = "recv"
    /\ tasks[t].taken < Len(wire[t])
    /\ tasks' = [tasks EXCEPT ![t].state = "got", ![t].taken = @ + 1,
                              ![t].value = wire[t][tasks[t].taken + 1]]
    /\ UNCHANGED <<disp, connections, wire, wire_closed, send_to_loop, sent_by>>

\* match rx.recv().await { Err(e) => println!(..) }; Err(SubscriptionClosed)
RelayRecvErr(t) ==
    /\ t \in Tasks
    /\ tasks[t].state = "recv"
    /\ tasks[t].taken = Len(wire[t])
    /\ wire_closed[t]
    /\ tasks' = [tasks EXCEPT ![t].state = "finished", ![t].result = "SubscriptionClosed"]
    /\ UNCHANGED <<disp, connections, wire, wire_closed, send_to_loop, sent_by>>

\* RelaySend that holds the event back until the SubscribeLogs has been answered
RelaySend_AfterOk(t) ==
    /\ t \in Tasks
    /\ tasks[t].state = "got"
    /\ disp[tasks[t].by].pc = "returned_ok"
    /\ LET event == DecodeEvent(tasks[t].value) IN
         IF event = None
         THEN /\ tasks' = [tasks EXCEPT ![t].state = "finished", ![t].result = "ProviderError"]
              /\ UNCHANGED <<send_to_loop, sent_by>>
         ELSE /\ \E id \in RandIds :
                   Send(RelayMessage(Our, id, tasks[t].sub_id, tasks[t].target, event),
                        <<"relay", t>>)
              /\ tasks' = [tasks EXCEPT ![t].state = "finished",
                                        ![t].result = "SubscriptionClosed"]
    /\ UNCHANGED <<disp, connections, wire, wire_closed>>

\* serde_json::from_str(value.get()).map_err(..)?; send_to_loop.send(..).await;
\* Err(SubscriptionClosed)
RelaySend(t) ==
    /\ t \in Tasks
    /\ tasks[t].state = "got"
    /\ LET event == DecodeEvent(tasks[t].value) IN
         IF event = None
         THEN /\ tasks' = [tasks EXCEPT ![t].state = "finished", ![t].result = "ProviderError"]
              /\ UNCHANGED <<send_to_loop, sent_by>>
         ELSE /\ \E id \in RandIds :
                   Send(RelayMessage(Our, id, tasks[t].sub_id, tasks[t].target, event),
                        <<"relay", t>>)
              /\ tasks' = [tasks EXCEPT ![t].state = "finished",
                                        ![t].result = "SubscriptionClosed"]
    /\ UNCHANGED <<disp, connections, wire, wire_closed>>

\* an aborted task whose send suspends is dropped there, the event with it
RelayDropped(t) ==
    /\ t \in Tasks
    /\ tasks[t].state = "got"
    /\ tasks[t].cancelled
    /\ DecodeEvent(tasks[t].value) # None
    /\ tasks' = [tasks EXCEPT ![t].state = "aborted"]
    /\ UNCHANGED <<disp, connections, wire, wire_closed, send_to_loop, sent_by>>

\* ------------------------------------------------------------ the program
Recv == RecvFrom(Inbound, MaxMsgs)

Next ==
    \/ Recv
    \/ \E d \in Dispatchers : RejectNonRequest(d)
    \/ \E d \in Dispatchers : RejectUndecodable(d)
    \/ \E d \in Dispatchers : SubscribePrepare(d)
    \/ \E d \in Dispatchers : SubscribeOpened(d)
    \/ \E d \in Dispatchers : SubscribeOpenFailed(d)
    \/ \E d \in Dispatchers : SubscribeSpawn(d)
    \/ \E d \in Dispatchers : SubscribeInsert(d)
    \/ \E d \in Dispatchers : UnsubscribeRemove(d)
    \/ \E d \in Dispatchers : UnsubscribeAbort(d)
    \/ \E d \in Dispatchers : RequestPrepare(d)
    \/ \E d \in Dispatchers : RequestReturned(d)
    \/ \E d \in Dispatchers : RequestFailed(d)
    \/ \E d \in Dispatchers : Reply(d)
    \/ \E t \in Tasks : RelayRecvOk(t)
    \/ \E t \in Tasks : RelayRecvErr(t)
    \/ \E t \in Tasks : RelaySend(t)
    \/ \E t \in Tasks : RelayDropped(t)
    \/ \E t \in Tasks : RemoteEmit(t, MaxEvents, {"malformed"})
    \/ \E t \in Tasks : RemoteClose(t)

Spec == Init /\ [][Next]_vars

\* the same program under subscription traffic only, with an endpoint that
\* opens every subscription, sends well-formed events and keeps its streams open
SubRecv == RecvFrom(SubscriptionTraffic, MaxSubMsgs)

SubNext ==
    \/ SubRecv
    \/ \E d \in Dispatchers : SubscribePrepare(d)
    \/ \E d \in Dispatchers : SubscribeOpened(d)
    \/ \E d \in Dispatchers : SubscribeSpawn(d)
    \/ \E d \in Dispatchers : SubscribeInsert(d)
    \/ \E d \in Dispatchers : UnsubscribeRemove(d)
    \/ \E d \in Dispatchers : UnsubscribeAbort(d)
    \/ \E d \in Dispatchers : Reply(d)
    \/ \E t \in Tasks : RelayRecvOk(t)
    \/ \E t \in Tasks : RelaySend(t)
    \/ \E t \in Tasks : RelayDropped(t)
    \/ \E t \in Tasks : RemoteEmit(t, MaxSubEvents, {})

SubSpec == Init /\ [][SubNext]_vars

\* the same program under less subscription traffic, on two sub_ids, with longer
\* streams that the endpoint may close
StreamRecv == RecvFrom(StreamTraffic, MaxStreamMsgs)

StreamNext ==
    \/ StreamRecv
    \/ \E d \in Dispatchers : SubscribePrepare(d)
    \/ \E d \in Dispatchers : SubscribeOpened(d)
    \/ \E d \in Dispatchers : SubscribeSpawn(d)
    \/ \E d \in Dispatchers : SubscribeInsert(d)
    \/ \E d \in Dispatchers : UnsubscribeRemove(d)
    \/ \E d \in Dispatchers : UnsubscribeAbort(d)
    \/ \E d \in Dispatchers : Reply(d)
    \/ \E t \in Tasks : RelayRecvOk(t)
    \/ \E t \in Tasks : RelayRecvErr(t)
    \/ \E t \in Tasks : RelaySend(t)
    \/ \E t \in Tasks : RelayDropped(t)
    \/ \E t \in Tasks : RemoteEmit(t, MaxStreamEvents, {})
    \/ \E t \in Tasks : RemoteClose(t)

StreamSpec == Init /\ [][StreamNext]_vars

\* the same program under well-formed operations, with an endpoint that may
\* answer a call, fail it, or leave it unanswered for good, and sends no events.
\* The tokio runtime polls every task that can run (the driver loop, every
\* spawned dispatcher); nothing obliges the endpoint to answer.
HangRecv == RecvFrom(OperationTraffic, MaxHangMsgs)

HangLocal ==
    \/ HangRecv
    \/ \E d \in Dispatchers : SubscribePrepare(d)
    \/ \E d \in Dispatchers : SubscribeSpawn(d)
    \/ \E d \in Dispatchers : SubscribeInsert(d)
    \/ \E d \in Dispatchers : UnsubscribeRemove(d)
    \/ \E d \in Dispatchers : UnsubscribeAbort(d)
    \/ \E d \in Dispatchers : RequestPrepare(d)
    \/ \E d \in Dispatchers : Reply(d)

HangNext ==
    \/ HangRecv
    \/ \E d \in Dispatchers : SubscribePrepare(d)
    \/ \E d \in Dispatchers : SubscribeOpened(d)
    \/ \E d \in Dispatchers : SubscribeOpenFailed(d)
    \/ \E d \in Dispatchers : SubscribeSpawn(d)
    \/ \E d \in Dispatchers : SubscribeInsert(d)
    \/ \E d \in Dispatchers : UnsubscribeRemove(d)
    \/ \E d \in Dispatchers : UnsubscribeAbort(d)
    \/ \E d \in Dispatchers : RequestPrepare(d)
    \/ \E d \in Dispatchers : RequestReturned(d)
    \/ \E d \in Dispatchers : RequestFailed(d)
    \/ \E d \in Dispatchers : Reply(d)

HangSpec == Init /\ [][HangNext]_vars /\ WF_vars(HangLocal)

\* ================================================================ properties
IsSubscribe(d) ==
    Km(d).message.kind = "Request" /\ Action(d).tag = "SubscribeLogs"
IsUnsubscribe(d) ==
    Km(d).message.kind = "Request" /\ Action(d).tag = "UnsubscribeLogs"
IsRequest(d) ==
    Km(d).message.kind = "Request" /\ Action(d).tag = "Request"

\* the registry key of a SubscribeLogs or UnsubscribeLogs dispatcher, of a task
Key(d) == SubKey(Km(d), Action(d).sub_id)
TaskKey(t) == Key(tasks[t].by)

\* a relay task is Active: it reads its stream or is relaying an event
Active(t) == tasks[t].state \in {"recv", "got"}

\* positions on the bus of the replies to a dispatcher's message, of the relays
\* of a task
RepliesTo(d) ==
    {i \in 1..Len(send_to_loop) :
        send_to_loop[i].message.kind = "Response" /\ send_to_loop[i].id = Km(d).id}
RelaysOf(t) ==
    {i \in 1..Len(send_to_loop) : sent_by[i] = <<"relay", t>>}

\* the dispatcher has ended: returned Ok(()), returned an Err, or panicked
Ended(d) == disp[d].pc \in {"returned_ok", "returned_err", "panicked"}

\* an UnsubscribeLogs that found its key has removed it and aborted the task
Unsubscribed(d) ==
    IsUnsubscribe(d) /\ disp[d].pc \in {"reply", "returned_ok"}

\* C1: an UnsubscribeLogs whose key is registered returns Ok and leaves the
\* registry without the key, and once it has completed no Sub relay of a
\* subscription of that key (opened before it) is put on the bus.
C1_UnsubscribeStopsRelays ==
    [][\A d \in Dispatchers : IsUnsubscribe(d) =>
         /\ (disp[d].pc = "start" /\ disp'[d].pc # "start" /\ Key(d) \in DOMAIN connections)
              => (disp'[d].pc = "abort" /\ Key(d) \notin DOMAIN connections')
         /\ (disp[d].pc = "abort" /\ disp'[d].pc # "abort")
              => disp'[d].return_body = [tag |-> "Ok"]
         /\ Unsubscribed(d)
              => \A t \in Tasks :
                    (TaskKey(t) = Key(d) /\ t <= disp[d].handle)
                       => Cardinality(RelaysOf(t)') = Cardinality(RelaysOf(t))
      ]_vars

\* the events a task has relayed, in the order of the bus
RECURSIVE RelayedFrom(_, _)
RelayedFrom(t, i) ==
    IF i > Len(send_to_loop) THEN <<>>
    ELSE IF sent_by[i] = <<"relay", t>>
         THEN <<send_to_loop[i].message.body.result>> \o RelayedFrom(t, i + 1)
         ELSE RelayedFrom(t, i + 1)
Relayed(t) == RelayedFrom(t, 1)

\* C2: a relay task whose stream has yielded E1, E2, E3, that was neither
\* closed nor cancelled and has nothing left to do has put exactly the three
\* Sub relays E1, E2, E3 on the bus, in that order.
C2_RelaysEveryEvent ==
    \A t \in Tasks :
        (/\ wire[t] = <<"E1", "E2", "E3">>
         /\ ~wire_closed[t]
         /\ ~tasks[t].cancelled
         /\ tasks[t].state = "finished")
          => Relayed(t) = <<"E1", "E2", "E3">>

\* where the reply to an inbound message belongs: rsvp, else its source
ReplyAddress(km) == IF km.rsvp # NoAddress THEN km.rsvp ELSE km.source

\* C3: a Request with expects_response set whose dispatcher has ended, whatever
\* the outcome, has received exactly one Response with its correlation id,
\* addressed to rsvp if present or else to source.
C3_EveryRequestAnswered ==
    \A d \in Dispatchers :
        (/\ Km(d).message.kind = "Request"
         /\ Km(d).message.expects_response # None
         /\ Ended(d))
          => /\ Cardinality(RepliesTo(d)) = 1
             /\ \A i \in RepliesTo(d) : send_to_loop[i].target = ReplyAddress(Km(d))

\* C4: an UnsubscribeLogs whose key is not in the registry fails with
\* SubscriptionNotFound, leaves the registry and every relay task as they are,
\* and does nothing afterwards.
C4_UnsubscribeUnknownKey ==
    [][\A d \in Dispatchers : IsUnsubscribe(d) =>
         /\ (disp[d].pc = "start" /\ disp'[d].pc # "start" /\ Key(d) \notin DOMAIN connections)
              => /\ disp'[d].pc = "returned_err"
                 /\ disp'[d].err = "SubscriptionNotFound"
                 /\ connections' = connections
                 /\ tasks' = tasks
                 /\ send_to_loop' = send_to_loop
         /\ disp[d].pc = "returned_err" => disp'[d] = disp[d]
      ]_vars

\* an UnsubscribeLogs has failed with SubscriptionNotFound while a relay task
\* is Active
C4_Witness ==
    \E d \in Dispatchers :
        /\ IsUnsubscribe(d)
        /\ disp[d].pc = "returned_err"
        /\ disp[d].err = "SubscriptionNotFound"
        /\ \E t \in Tasks : Active(t)

\* the inbound envelope asks for a reply
WantsReply(km) == km.rsvp # NoAddress \/ km.message.expects_response # None

\* the operation failed with a typed Error: SubscriptionNotFound of an
\* UnsubscribeLogs, ProviderError of a Request with an unknown method
TypedError(d) ==
    \/ IsUnsubscribe(d) /\ disp[d].err = "SubscriptionNotFound"
    \/ IsRequest(d) /\ disp[d].err = "ProviderError"

\* C5: an operation that failed with a typed Error is answered like a success:
\* if the envelope has an rsvp or expects_response, exactly one reply carrying
\* the error is on the bus, addressed by the reply-resolution rule.
C5_TypedErrorAnswered ==
    \A d \in Dispatchers :
        (disp[d].pc = "returned_err" /\ TypedError(d) /\ WantsReply(Km(d)))
          => /\ Cardinality(RepliesTo(d)) = 1
             /\ \A i \in RepliesTo(d) :
                  /\ send_to_loop[i].message.body = [tag |-> "Err", error |-> disp[d].err]
                  /\ send_to_loop[i].target = ReplyAddress(Km(d))

\* C6: a SubscribeLogs whose remote open succeeded has its key in the registry
\* when its insert is done and when its Ok reply is sent (unless an
\* UnsubscribeLogs for the key got in between), and no step other than the
\* remove of an UnsubscribeLogs for that key takes a key out of the registry:
\* not the end of its relay task, not another subscribe.
C6_EntryStaysUntilUnsubscribe ==
    [][/\ \A d \in Dispatchers : IsSubscribe(d) =>
            /\ (disp[d].pc = "insert" /\ disp'[d].pc # "insert")
                 => /\ Key(d) \in DOMAIN connections'
                    /\ connections'[Key(d)] = disp[d].handle
            /\ (disp[d].pc = "reply" /\ disp'[d].pc # "reply")
                 => /\ disp[d].return_body = [tag |-> "Ok"]
                    /\ \/ Key(d) \in DOMAIN connections
                       \/ \E u \in Dispatchers : Unsubscribed(u) /\ Key(u) = Key(d)
                       \/ \E u \in Dispatchers : At(u, "abort") /\ Key(u) = Key(d)
       /\ \A k \in DOMAIN connections :
            k \notin DOMAIN connections'
              => \E u \in Dispatchers :
                    /\ IsUnsubscribe(u) /\ Key(u) = k
                    /\ disp[u].pc = "start" /\ disp'[u].pc = "abort"
      ]_vars

\* a SubscribeLogs has been answered Ok, its relay task has ended on its own,
\* and its entry is still in the registry
C6_Witness ==
    \E d \in Dispatchers :
        /\ IsSubscribe(d)
        /\ disp[d].pc = "returned_ok"
        /\ \E i \in RepliesTo(d) : send_to_loop[i].message.body = [tag |-> "Ok"]
        /\ Key(d) \in DOMAIN connections
        /\ connections[Key(d)] = disp[d].handle
        /\ tasks[disp[d].handle].state = "finished"

\* C7: a SubscribeLogs that has returned and whose stream has produced no event
\* has, if its envelope asks for a reply, exactly one reply on the bus, an Ok,
\* and its relay task has put no Sub relay on the bus.
C7_OkWithoutEvents ==
    \A d \in Dispatchers :
        (IsSubscribe(d) /\ disp[d].pc = "returned_ok" /\ wire[disp[d].handle] = <<>>)
          => /\ WantsReply(Km(d))
                  => /\ Cardinality(RepliesTo(d)) = 1
                     /\ \A i \in RepliesTo(d) :
                          send_to_loop[i].message.body = [tag |-> "Ok"]
             /\ RelaysOf(disp[d].handle) = {}

\* a SubscribeLogs has been answered Ok although its stream has produced nothing
C7_Witness ==
    \E d \in Dispatchers :
        /\ IsSubscribe(d)
        /\ disp[d].pc = "returned_ok"
        /\ wire[disp[d].handle] = <<>>
        /\ Cardinality(RepliesTo(d)) = 1
        /\ RelaysOf(disp[d].handle) = {}

\* C8: in every state, a relay task that is Active has its key in the registry.
C8_NoEntryNoActiveTask ==
    \A t \in Tasks : Active(t) => TaskKey(t) \in DOMAIN connections

\* the bridge has nothing left to do: every dispatcher has ended, every relay
\* task has ended or waits for its stream
Quiescent ==
    /\ \A d \in Dispatchers : Ended(d)
    /\ \A t \in Tasks :
         \/ tasks[t].state \in {"finished", "aborted"}
         \/ tasks[t].state = "recv" /\ tasks[t].taken = Len(wire[t]) /\ ~wire_closed[t]

\* C9: once the bridge has nothing left to do, no registry entry refers to a
\* relay task that has terminated on its own.
C9_TerminatedTaskDeregistered ==
    Quiescent => \A k \in DOMAIN connections : tasks[connections[k]].state # "finished"

\* C10: two SubscribeLogs with the same sub_id from different requesting
\* processes are registered under different keys, and an UnsubscribeLogs only
\* ever takes the handle of a subscription of its own requesting process.
C10_KeyIsOwnerAndSubId ==
    /\ \A d1, d2 \in Dispatchers :
         (/\ IsSubscribe(d1) /\ disp[d1].pc \in {"reply", "returned_ok"}
          /\ IsSubscribe(d2) /\ disp[d2].pc \in {"reply", "returned_ok"}
          /\ Km(d1).source.process # Km(d2).source.process)
           => Key(d1) # Key(d2)
    /\ \A u \in Dispatchers :
         (IsUnsubscribe(u) /\ disp[u].handle # 0)
           => Km(tasks[disp[u].handle].by).source.process = Km(u).source.process

\* C11: once an operation has completed, its reply is resolved from the
\* envelope: to rsvp if the envelope carries one; else, if the Request set
\* expects_response, to the envelope's source Address (same node, same
\* process); else no reply is sent. No inbound message ever has two replies.
C11_ReplyResolution ==
    \A d \in Dispatchers :
        /\ Cardinality(RepliesTo(d)) <= 1
        /\ disp[d].pc = "returned_ok"
             => IF Km(d).rsvp # NoAddress
                THEN \E i \in RepliesTo(d) : send_to_loop[i].target = Km(d).rsvp
                ELSE IF Km(d).message.expects_response # None
                     THEN \E i \in RepliesTo(d) : send_to_loop[i].target = Km(d).source
                     ELSE RepliesTo(d) = {}

\* the payload is not a Request, or its body decodes into no operation
Rejected(d) == Km(d).message.kind # "Request" \/ Action(d) = NoBody

\* C12: a dispatcher whose payload is not a Request or whose body does not
\* decode never has a reply on the bus, and its only step is the one that ends
\* it with an error: that step leaves the registry, every relay task, every
\* stream, the bus and every other dispatcher as they are, and it issues no
\* remote call.
C12_RejectHasNoEffect ==
    [][\A d \in Dispatchers : Rejected(d) =>
         /\ RepliesTo(d)' = {}
         /\ disp'[d] # disp[d]
              => /\ disp[d].pc = "start"
                 /\ disp'[d].pc = "returned_err"
                 /\ disp'[d].err = "ProviderError"
                 /\ Len(disp') = Len(disp)
                 /\ \A o \in Dispatchers \ {d} : disp'[o] = disp[o]
                 /\ UNCHANGED <<connections, tasks, wire, wire_closed, send_to_loop>>
      ]_vars

\* a message was rejected while a subscription was registered and its relay
\* task Active, and a message dequeued after it has been served and answered
C12_Witness ==
    \E d, o \in Dispatchers :
        /\ d < o
        /\ Rejected(d)
        /\ disp[d].pc = "returned_err"
        /\ disp[o].pc = "returned_ok"
        /\ RepliesTo(o) # {}
        /\ \E t \in Tasks : Active(t) /\ TaskKey(t) \in DOMAIN connections

\* C13: a one-shot Request with an allow-listed method whose remote call has
\* returned R is answered, when its envelope asks for a reply, by exactly one
\* reply whose body is Request(R), R being the very value the call returned;
\* and no step of its dispatcher changes the registry, a relay task or a stream.
C13_RequestReturnsResult ==
    [][\A d \in Dispatchers : IsRequest(d) =>
         /\ disp'[d] # disp[d]
              => UNCHANGED <<connections, tasks, wire, wire_closed>>
         /\ (disp'[d].pc = "returned_ok" /\ WantsReply(Km(d)))
              => /\ disp'[d].response \in RpcValues
                 /\ Cardinality(RepliesTo(d)') = 1
                 /\ \A i \in RepliesTo(d)' :
                      send_to_loop'[i].message.body =
                          [tag |-> "Request", value |-> disp'[d].response]
      ]_vars

\* a Request whose call returned R2 has been answered with Request(R2) while a
\* subscription is registered and its relay task is Active
C13_Witness ==
    \E d \in Dispatchers :
        /\ IsRequest(d)
        /\ disp[d].pc = "returned_ok"
        /\ disp[d].response = "R2"
        /\ \E i \in RepliesTo(d) :
             send_to_loop[i].message.body = [tag |-> "Request", value |-> "R2"]
        /\ \E t \in Tasks : Active(t) /\ TaskKey(t) \in DOMAIN connections

\* a sequence is a prefix of another
IsPrefix(s, t) == Len(s) <= Len(t) /\ \A i \in 1..Len(s) : s[i] = t[i]

\* C14: every message a relay task puts on the bus is a Request with no
\* expects_response and no rsvp, with body Sub{id, result} where id is the
\* sub_id of the SubscribeLogs that opened the subscription and result is the
\* event received from its stream, addressed to the source Address of that
\* SubscribeLogs envelope; and every Sub message on the bus is such a relay.
C14_RelayShapeAndRecipient ==
    /\ \A i \in 1..Len(send_to_loop) :
         send_to_loop[i].message.body.tag = "Sub"
           => \E t \in Tasks : sent_by[i] = <<"relay", t>>
    /\ \A t \in Tasks :
         /\ IsPrefix(Relayed(t), wire[t])
         /\ \A i \in RelaysOf(t) :
              /\ send_to_loop[i].message.kind = "Request"
              /\ send_to_loop[i].message.expects_response = None
              /\ send_to_loop[i].rsvp = NoAddress
              /\ send_to_loop[i].message.body.tag = "Sub"
              /\ send_to_loop[i].message.body.id = Action(tasks[t].by).sub_id
              /\ send_to_loop[i].target = Km(tasks[t].by).source
              /\ IsSubscribe(tasks[t].by)

\* two subscriptions with different sub_ids, opened by callers on different
\* nodes, have each relayed an event
C14_Witness ==
    \E t, u \in Tasks :
        /\ Action(tasks[t].by).sub_id # Action(tasks[u].by).sub_id
        /\ Km(tasks[t].by).source.node # Km(tasks[u].by).source.node
        /\ RelaysOf(t) # {}
        /\ RelaysOf(u) # {}

\* the dispatcher waits for the remote endpoint to answer its call
AwaitsRemote(d) == disp[d].pc \in {"subscribe_await", "request_await"}

\* C15: whatever calls the endpoint leaves unanswered, the driver loop dequeues
\* every inbound message and every dispatcher runs until it has ended or waits
\* for the answer to its own call; none waits for another dispatcher, and each
\* that has completed its operation has its reply on the bus.
C15_HangBlocksOnlyItself ==
    <>[](/\ Len(disp) = MaxHangMsgs
         /\ \A d \in Dispatchers :
              /\ Ended(d) \/ AwaitsRemote(d)
              /\ disp[d].pc = "returned_ok" => Cardinality(RepliesTo(d)) = 1)

\* a Request waits for an answer that has not come, and behind it a
\* SubscribeLogs and an UnsubscribeLogs dequeued later have completed and been
\* answered Ok
C15_Witness ==
    \E d, o, u \in Dispatchers :
        /\ d < o /\ o < u
        /\ IsRequest(d) /\ AwaitsRemote(d)
        /\ IsSubscribe(o) /\ disp[o].pc = "returned_ok" /\ RepliesTo(o) # {}
        /\ IsUnsubscribe(u) /\ disp[u].pc = "returned_ok"
        /\ \E i \in RepliesTo(u) : send_to_loop[i].message.body = [tag |-> "Ok"]

\* the task's entry has been overwritten: it was inserted, the registry does
\* not refer to it, and no UnsubscribeLogs took its handle out
Overwritten(t) ==
    /\ disp[tasks[t].by].pc \in {"reply", "returned_ok"}
    /\ TaskKey(t) \in DOMAIN connections => connections[TaskKey(t)] # t
    /\ \A u \in Dispatchers : IsUnsubscribe(u) => disp[u].handle # t

\* C16: the insert of a SubscribeLogs on a registered key replaces the entry
\* and nothing else: the registry keeps its keys, the key refers to the new
\* task, every other entry and every relay task is as before (the old task is
\* not cancelled). An UnsubscribeLogs takes the handle the registry holds and
\* its abort touches that task only, so a task whose entry was overwritten
\* stays overwritten and is never cancelled.
C16_OverwriteOrphansOldTask ==
    [][/\ \A d \in Dispatchers :
            (/\ IsSubscribe(d)
             /\ disp[d].pc = "insert" /\ disp'[d].pc # "insert"
             /\ Key(d) \in DOMAIN connections)
              => /\ DOMAIN connections' = DOMAIN connections
                 /\ connections'[Key(d)] = disp[d].handle
                 /\ \A k \in DOMAIN connections \ {Key(d)} : connections'[k] = connections[k]
                 /\ tasks' = tasks
       /\ \A u \in Dispatchers : IsUnsubscribe(u) =>
            /\ (disp[u].pc = "start" /\ disp'[u].pc = "abort")
                 => disp'[u].handle = connections[Key(u)]
            /\ (disp[u].pc = "abort" /\ disp'[u].pc # "abort")
                 => \A t \in Tasks \ {disp[u].handle} : tasks'[t] = tasks[t]
       /\ \A t \in Tasks :
            Overwritten(t)
              => /\ Overwritten(t)'
                 /\ ~tasks[t].cancelled /\ tasks[t].state # "aborted"
                 /\ ~tasks'[t].cancelled /\ tasks'[t].state # "aborted"
      ]_vars

\* two SubscribeLogs on one key and an UnsubscribeLogs have completed: the key
\* is gone, the newer task is aborted, the older one is still Active
C16_Witness ==
    \E t, n \in Tasks :
        /\ t < n
        /\ TaskKey(t) = TaskKey(n)
        /\ Overwritten(t) /\ Active(t)
        /\ tasks[n].state = "aborted"
        /\ TaskKey(t) \notin DOMAIN connections
        /\ \E u \in Dispatchers :
             IsUnsubscribe(u) /\ disp[u].handle = n /\ disp[u].pc = "returned_ok"

\* C17: when a SubscribeLogs and, dequeued after it, an UnsubscribeLogs are the
\* only operations on their key, the unsubscribe does not fail with
\* SubscriptionNotFound, and once both dispatchers have ended the key is not in
\* the registry and the relay task is not running (it is ended, or cancelled
\* and on its way out).
C17_UnsubscribeAfterSubscribe ==
    \A d, u \in Dispatchers :
        (/\ d < u
         /\ IsSubscribe(d) /\ IsUnsubscribe(u)
         /\ Key(d) = Key(u)
         /\ \A o \in Dispatchers \ {d, u} : Key(o) # Key(d))
          => /\ disp[u].err # "SubscriptionNotFound"
             /\ (Ended(d) /\ Ended(u))
                  => /\ Key(d) \notin DOMAIN connections
                     /\ \/ tasks[disp[d].handle].state \in {"aborted", "finished"}
                        \/ tasks[disp[d].handle].cancelled

\* the first relay of the task is on the bus before the Ok reply of its
\* SubscribeLogs, or while there is none yet
RelayBeforeOk(t) ==
    /\ RelaysOf(t) # {}
    /\ \A i \in RelaysOf(t) : \A j \in RepliesTo(tasks[t].by) : i < j
\* the Ok reply of the task's SubscribeLogs is on the bus before its first
\* relay, or while there is none yet
OkBeforeRelay(t) ==
    /\ RepliesTo(tasks[t].by) # {}
    /\ \A j \in RepliesTo(tasks[t].by) : \A i \in RelaysOf(t) : j < i

\* C18: the Ok reply of a SubscribeLogs and the relays of its task do not wait
\* for one another: a relay task can take an event of its stream and put it on
\* the bus whatever the position of its dispatcher, and the dispatcher can
\* send its reply whatever the state of its task; so both orders of the Ok and
\* the first relay are reachable.
C18_NoOrderOkAndFirstRelay ==
    /\ \A t \in Tasks :
         /\ (tasks[t].state = "recv" /\ tasks[t].taken < Len(wire[t]))
              => ENABLED RelayRecvOk(t)
         /\ tasks[t].state = "got" => ENABLED RelaySend(t)
    /\ \A d \in Dispatchers :
         (IsSubscribe(d) /\ disp[d].pc = "reply") => ENABLED Reply(d)

\* both orders at once, on the bus of one run: one subscription's first relay
\* precedes its Ok reply, another's Ok reply precedes its first relay
C18_Witness ==
    \E t, u \in Tasks :
        /\ RelaysOf(t) # {} /\ RepliesTo(tasks[t].by) # {} /\ RelayBeforeOk(t)
        /\ RelaysOf(u) # {} /\ RepliesTo(tasks[u].by) # {} /\ OkBeforeRelay(u)

\* C19: a SubscribeLogs leaves the wait for its remote open either to spawn its
\* relay task (the open succeeded) or in a fault: the failure step ends the
\* dispatcher with no typed error and changes nothing else (registry, relay
\* tasks, streams, bus, the other dispatchers); a faulted SubscribeLogs takes
\* no further step, has no relay task and no reply on the bus.
C19_OpenFailureIsFault ==
    [][\A d \in Dispatchers : IsSubscribe(d) =>
         /\ (disp[d].pc = "subscribe_await" /\ disp'[d].pc \notin {"subscribe_await", "spawn"})
              => /\ disp'[d].pc = "panicked"
                 /\ disp'[d].err = None
                 /\ Len(disp') = Len(disp)
                 /\ \A o \in Dispatchers \ {d} : disp'[o] = disp[o]
                 /\ UNCHANGED <<connections, tasks, wire, wire_closed, send_to_loop>>
         /\ disp[d].pc = "panicked"
              => /\ disp'[d] = disp[d]
                 /\ disp[d].handle = 0
                 /\ \A t \in 1..Len(tasks') : tasks'[t].by # d
                 /\ RepliesTo(d)' = {}
      ]_vars

\* the remote open of a SubscribeLogs that asked for a reply has failed, and a
\* message dequeued after it has been served and answered
C19_Witness ==
    \E d, o \in Dispatchers :
        /\ d < o
        /\ IsSubscribe(d) /\ WantsReply(Km(d))
        /\ disp[d].pc = "panicked"
        /\ disp[o].pc = "returned_ok"
        /\ RepliesTo(o) # {}

\* C20: every message the bridge puts on the bus, reply or relay, has the
\* source Address (our node, the bridge's own process).
C20_OneSourceAddress ==
    \A i \in 1..Len(send_to_loop) :
        send_to_loop[i].source = Address(Our, ETH_PROCESS_ID)

====
